---------------------------- MODULE Spec2Model ----------------------------
(***************************************************************************)
(* A model of the two screens of the application.                          *)
(*                                                                         *)
(*   LoginScreen  (src/src/screens/LoginScreen.tsx, lines 15-60): the       *)
(*     login form and handleLogin, which posts the credentials and         *)
(*     replaces the Login route by Home when the response carries a token. *)
(*   HomeScreen   (src/src/screens/LoginScreen.tsx, lines 108-267): the     *)
(*     student records held in React state, mirrored to AsyncStorage under *)
(*     the key 'students'.                                                 *)
(*                                                                         *)
(* The collaborators are modelled by their contracts: the HTTP call ends   *)
(* in a rejection, a response with a token or a response without one;      *)
(* AsyncStorage serves its requests one at a time in the order they were   *)
(* issued, and each may fail; Alert.alert shows a message, and the delete  *)
(* confirmation is a modal dialog whose button handler is the closure      *)
(* created when the dialog was opened.  An event handler runs to its end   *)
(* before the next event, and sees the state of the latest render.         *)
(*                                                                         *)
(* op and alert record what the last step was and which message it         *)
(* showed; failed, mutated and removed record the history the properties   *)
(* speak of.  The guards on MaxStudents, MaxInFlight and MaxLoginRequests  *)
(* bound the model only: the code has no such limits.                      *)
(***************************************************************************)
EXTENDS Integers, Sequences, FiniteSets, TLC

\* ------------------------------------------------------------------ bounds
\* Date.now() takes the values 0..MaxClock.
MaxClock == 1
\* The add form is disabled once the list holds MaxStudents records.
MaxStudents == 2
\* AsyncStorage requests (reads and writes) in flight at once.
MaxInFlight == 2
\* Login requests in flight at once.
MaxLoginRequests == 2

\* ------------------------------------------------------------- value sets
\* null, for editId.
Null == "null"

\* What the user can type in each field ("" is the cleared field).
LoginEmails == {"", "eve.holt@reqres.in"}
Passwords == {"", "cityslicka"}
Names == {"", "Ann", "Bob"}
Emails == {"", "a@x.com"}
Ages == {"", "10"}
Grades == {"", "5"}

\* The handlers op tells apart; Other for the rest (the field setters, the
\* list's buttons, the completions of the writes, the clock).
Other == "other"
OpHandleLogin == "handleLogin"
OpSaveStudent == "saveStudent"
OpHapus == "Hapus"
OpBatal == "Batal"
OpLoadStudents == "loadStudents"
OpOrphanResponse == "orphanResponse"
\* handleLogin after its await, by the way the call ended.
OpResponse(outcome) ==
    CASE outcome = "token" -> "loginWithToken"
      [] outcome = "reject" -> "loginRejected"
      [] outcome = "notoken" -> "loginWithoutToken"

\* How the login call can end: axios.post rejects (a network error, a
\* status outside 2xx; a response without data, whose `.token` throws, is
\* caught alike), or resolves with data that holds a token, or with data
\* that holds none.
LoginOutcomes == {"reject", "token", "notoken"}

\* JavaScript truthiness of a string or null: `if (x)`, `!x`.
Truthy(s) == s # Null /\ s # ""

\* Alert messages; NoAlert when a step shows none.
NoAlert == "none"
AlertLoginRequired == "Email dan password wajib diisi!"
AlertLoginOk == "Login berhasil!"
AlertLoginFailed == "Email atau password salah"
AlertFieldsRequired == "Semua kolom harus diisi!"
AlertUpdated == "Data siswa berhasil diperbarui!"
AlertAdded == "Siswa berhasil ditambahkan!"
AlertDeleted == "Siswa berhasil dihapus!"

VARIABLES
    screen,          \* the route on display: "Login" or "Home"
    loginEmail,      \* LoginScreen: email
    password,        \* LoginScreen: password
    requests,        \* login calls in flight, issued by the mounted LoginScreen
    orphans,         \* login calls in flight whose LoginScreen was replaced
    students,        \* HomeScreen: students
    name,            \* HomeScreen: name
    email,           \* HomeScreen: email
    age,             \* HomeScreen: age
    grade,           \* HomeScreen: grade
    editId,          \* HomeScreen: editId
    modalVisible,    \* HomeScreen: modalVisible
    selectedStudent, \* HomeScreen: selectedStudent, <<>> for null
    prompt,          \* the open delete confirmation, <<>> when closed
    storage,         \* AsyncStorage's item 'students', <<>> when absent
    queue,           \* AsyncStorage requests in flight, oldest first
    now,             \* Date.now()
    op,              \* the handler that ran in the last step, of those below
    alert,           \* the message the last step showed, or NoAlert
    failed,          \* some AsyncStorage call has failed
    mutated,         \* the mounted HomeScreen has added, edited or deleted
    removed          \* id of the last confirmed delete, Null once a save or a
                     \* delete followed it or its write failed

loginVars == <<loginEmail, password, requests>>
formVars == <<name, email, age, grade, editId>>
viewVars == <<modalVisible, selectedStudent>>
homeVars == <<students, formVars, viewVars, prompt>>
envVars == <<storage, queue, now>>
histVars == <<failed, mutated, removed>>
vars == <<screen, loginVars, orphans, homeVars, envVars, op, alert, histVars>>

\* ----------------------------------------------------------- JSON
\* JSON.stringify of a Student: its keys in the order the object literals
\* of saveStudent give them, each followed by its value.
StringifyStudent(s) ==
    <<"{", "id", s.id, "first_name", s.first_name, "last_name", s.last_name,
      "email", s.email, "age", s.age, "grade", s.grade, "}">>

RECURSIVE StringifyAll(_)
StringifyAll(data) ==
    IF data = <<>> THEN <<>>
    ELSE StringifyStudent(Head(data)) \o StringifyAll(Tail(data))

\* JSON.stringify(data) for data: Student[].
Stringify(data) == <<"[">> \o StringifyAll(data) \o <<"]">>

ObjectLen == 14

\* The value that follows key k in the tokens of one object.
ValueOf(obj, k) ==
    obj[1 + CHOOSE i \in 1..Len(obj) - 1 : obj[i] = k /\ i % 2 = 0]

ParseStudent(obj) ==
    [id |-> ValueOf(obj, "id"), first_name |-> ValueOf(obj, "first_name"),
     last_name |-> ValueOf(obj, "last_name"), email |-> ValueOf(obj, "email"),
     age |-> ValueOf(obj, "age"), grade |-> ValueOf(obj, "grade")]

RECURSIVE ParseAll(_)
ParseAll(toks) ==
    IF toks = <<>> THEN <<>>
    ELSE <<ParseStudent(SubSeq(toks, 1, ObjectLen))>>
         \o ParseAll(SubSeq(toks, ObjectLen + 1, Len(toks)))

\* JSON.parse(text) for a text JSON.stringify wrote.
Parse(text) == ParseAll(SubSeq(text, 2, Len(text) - 1))

\* ----------------------------------------------------------- initial state
\* useState's initial values of LoginScreen.
LoginMounted ==
    /\ loginEmail' = ""
    /\ password' = ""
    /\ requests' = 0

\* useState's initial values of HomeScreen.
HomeFresh ==
    /\ students' = <<>>
    /\ name' = ""
    /\ email' = ""
    /\ age' = ""
    /\ grade' = ""
    /\ editId' = Null
    /\ modalVisible' = FALSE
    /\ selectedStudent' = <<>>
    /\ prompt' = <<>>

Init ==
    /\ screen = "Login"
    /\ loginEmail = ""
    /\ password = ""
    /\ requests = 0
    /\ orphans = 0
    /\ students = <<>>
    /\ name = ""
    /\ email = ""
    /\ age = ""
    /\ grade = ""
    /\ editId = Null
    /\ modalVisible = FALSE
    /\ selectedStudent = <<>>
    /\ prompt = <<>>
    /\ storage = <<>>
    /\ queue = <<>>
    /\ now = 0
    /\ op = Other
    /\ alert = NoAlert
    /\ failed = FALSE
    /\ mutated = FALSE
    /\ removed = Null

\* ----------------------------------------------------------- LoginScreen
setLoginEmail(v) ==
    /\ screen = "Login"
    /\ loginEmail' = v
    /\ op' = Other
    /\ alert' = NoAlert
    /\ UNCHANGED <<screen, password, requests, orphans, homeVars, envVars, histVars>>

setPassword(v) ==
    /\ screen = "Login"
    /\ password' = v
    /\ op' = Other
    /\ alert' = NoAlert
    /\ UNCHANGED <<screen, loginEmail, requests, orphans, homeVars, envVars, histVars>>

\* A slip in the validation: `!email && !password`.
LoginInputMissingBoth == ~Truthy(loginEmail) /\ ~Truthy(password)

\* `!email || !password`
LoginInputMissing == ~Truthy(loginEmail) \/ ~Truthy(password)

\* handleLogin up to its await: the validation, then axios.post.
handleLogin ==
    /\ screen = "Login"
    /\ op' = OpHandleLogin
    /\ IF LoginInputMissing
       THEN /\ alert' = AlertLoginRequired
            /\ UNCHANGED requests
       ELSE /\ requests + orphans < MaxLoginRequests
            /\ requests' = requests + 1
            /\ alert' = NoAlert
    /\ UNCHANGED <<screen, loginEmail, password, orphans, homeVars, envVars, histVars>>

\* A request to AsyncStorage.
GetRequest == [kind |-> "get", live |-> TRUE, value |-> <<>>]
SetRequest(data) == [kind |-> "set", live |-> TRUE, value |-> Stringify(data)]

\* navigation.replace('Home'): LoginScreen goes, HomeScreen mounts and its
\* effect calls loadStudents, which awaits AsyncStorage.getItem.
ReplaceWithHome ==
    /\ Len(queue) < MaxInFlight
    /\ screen' = "Home"
    /\ LoginMounted
    /\ HomeFresh
    /\ queue' = Append(queue, GetRequest)
    /\ mutated' = FALSE
    /\ UNCHANGED <<storage, now, failed, removed>>

\* handleLogin after its await, on the mounted LoginScreen.
loginResponse(outcome) ==
    /\ screen = "Login"
    /\ requests > 0
    /\ op' = OpResponse(outcome)
    /\ CASE outcome = "token" ->
              /\ alert' = AlertLoginOk
              /\ ReplaceWithHome
              /\ orphans' = orphans + requests - 1
         [] outcome = "reject" ->
              /\ alert' = AlertLoginFailed
              /\ requests' = requests - 1
              /\ UNCHANGED <<screen, loginEmail, password, orphans, homeVars,
                             envVars, histVars>>
         [] outcome = "notoken" ->
              /\ alert' = NoAlert
              /\ requests' = requests - 1
              /\ UNCHANGED <<screen, loginEmail, password, orphans, homeVars,
                             envVars, histVars>>

\* handleLogin after its await when its LoginScreen was replaced meanwhile:
\* the alerts are shown, and the navigator ignores a replace whose source
\* route is gone.
orphanResponse(outcome) ==
    /\ orphans > 0
    /\ orphans' = orphans - 1
    /\ op' = OpOrphanResponse
    /\ alert' = CASE outcome = "token" -> AlertLoginOk
                  [] outcome = "reject" -> AlertLoginFailed
                  [] outcome = "notoken" -> NoAlert
    /\ UNCHANGED <<screen, loginVars, homeVars, envVars, histVars>>

\* ----------------------------------------------------------- AsyncStorage
\* The requests still in flight that are writes.
PendingWrites(q) == SelectSeq(q, LAMBDA r : r.kind = "set")

\* saveToStorage(data): AsyncStorage.setItem('students', JSON.stringify(data)),
\* not awaited by its callers.
saveToStorage(data) ==
    /\ Len(queue) < MaxInFlight
    /\ queue' = Append(queue, SetRequest(data))

\* loadStudents after its await, getItem resolved: `if (storedData)
\* setStudents(JSON.parse(storedData))`.  On an unmounted HomeScreen the
\* setStudents does nothing.
getItemResolve ==
    /\ queue # <<>>
    /\ Head(queue).kind = "get"
    /\ queue' = Tail(queue)
    /\ op' = IF Head(queue).live THEN OpLoadStudents ELSE Other
    /\ alert' = NoAlert
    /\ students' = IF Head(queue).live /\ storage # <<>>
                   THEN Parse(storage) ELSE students
    /\ UNCHANGED <<screen, loginVars, orphans, formVars, viewVars, prompt,
                   storage, now, histVars>>

\* loadStudents after its await, getItem rejected: console.error.
getItemReject ==
    /\ queue # <<>>
    /\ Head(queue).kind = "get"
    /\ queue' = Tail(queue)
    /\ op' = Other
    /\ alert' = NoAlert
    /\ failed' = TRUE
    /\ UNCHANGED <<screen, loginVars, orphans, homeVars, storage, now,
                   mutated, removed>>

\* setItem resolved: the item holds the text written.
setItemResolve ==
    /\ queue # <<>>
    /\ Head(queue).kind = "set"
    /\ queue' = Tail(queue)
    /\ storage' = Head(queue).value
    /\ op' = Other
    /\ alert' = NoAlert
    /\ UNCHANGED <<screen, loginVars, orphans, homeVars, now, histVars>>

\* setItem rejected: console.error, the item is as it was.
setItemReject ==
    /\ queue # <<>>
    /\ Head(queue).kind = "set"
    /\ queue' = Tail(queue)
    /\ op' = Other
    /\ alert' = NoAlert
    /\ failed' = TRUE
    /\ removed' = IF PendingWrites(Tail(queue)) = <<>> THEN Null ELSE removed
    /\ UNCHANGED <<screen, loginVars, orphans, homeVars, storage, now, mutated>>

\* The clock advances.
Tick ==
    /\ now < MaxClock
    /\ now' = now + 1
    /\ op' = Other
    /\ alert' = NoAlert
    /\ UNCHANGED <<screen, loginVars, orphans, homeVars, storage, queue, histVars>>

\* ----------------------------------------------------------- HomeScreen
\* The user can press the form and the list: HomeScreen is on display and
\* neither the confirmation dialog nor the detail modal covers it.
HomeIdle == screen = "Home" /\ prompt = <<>> /\ ~modalVisible

setName(v) ==
    /\ HomeIdle
    /\ name' = v
    /\ op' = Other
    /\ alert' = NoAlert
    /\ UNCHANGED <<screen, loginVars, orphans, students, email, age, grade,
                   editId, viewVars, prompt, envVars, histVars>>

setEmail(v) ==
    /\ HomeIdle
    /\ email' = v
    /\ op' = Other
    /\ alert' = NoAlert
    /\ UNCHANGED <<screen, loginVars, orphans, students, name, age, grade,
                   editId, viewVars, prompt, envVars, histVars>>

setAge(v) ==
    /\ HomeIdle
    /\ age' = v
    /\ op' = Other
    /\ alert' = NoAlert
    /\ UNCHANGED <<screen, loginVars, orphans, students, name, email, grade,
                   editId, viewVars, prompt, envVars, histVars>>

setGrade(v) ==
    /\ HomeIdle
    /\ grade' = v
    /\ op' = Other
    /\ alert' = NoAlert
    /\ UNCHANGED <<screen, loginVars, orphans, students, name, email, age,
                   editId, viewVars, prompt, envVars, histVars>>

\* A slip in the validation: grade is not looked at.
FormIncompleteWithoutGrade ==
    ~Truthy(name) \/ ~Truthy(email) \/ ~Truthy(age)

\* `!name || !email || !age || !grade`
FormIncomplete ==
    ~Truthy(name) \/ ~Truthy(email) \/ ~Truthy(age) \/ ~Truthy(grade)

\* The object literal of the edit branch.
EditedStudent ==
    [id |-> editId, first_name |-> name, last_name |-> "", email |-> email,
     age |-> age, grade |-> grade]

\* students.map(s => s.id === editId ? {...} : s)
UpdateStudents(list) ==
    [i \in 1..Len(list) |-> IF list[i].id = editId THEN EditedStudent ELSE list[i]]

\* newStudent, its id Date.now().toString().
NewStudent ==
    [id |-> ToString(now), first_name |-> name, last_name |-> "",
     email |-> email, age |-> age, grade |-> grade]

\* A slip in the add branch: [newStudent, ...students].
AddStudentFirst(list) == <<NewStudent>> \o list

\* [...students, newStudent]
AddStudent(list) == Append(list, NewStudent)

\* saveStudent.
saveStudent ==
    /\ HomeIdle
    /\ op' = OpSaveStudent
    /\ IF FormIncomplete
       THEN /\ alert' = AlertFieldsRequired
            /\ UNCHANGED <<students, formVars, queue, mutated, removed>>
       ELSE /\ IF Truthy(editId)
               THEN /\ students' = UpdateStudents(students)
                    /\ saveToStorage(UpdateStudents(students))
                    /\ alert' = AlertUpdated
               ELSE /\ Len(students) < MaxStudents
                    /\ students' = AddStudent(students)
                    /\ saveToStorage(AddStudent(students))
                    /\ alert' = AlertAdded
            /\ editId' = Null
            /\ name' = ""
            /\ email' = ""
            /\ age' = ""
            /\ grade' = ""
            /\ mutated' = TRUE
            /\ removed' = Null
    /\ UNCHANGED <<screen, loginVars, orphans, viewVars, prompt, storage, now,
                   failed>>

\* deleteStudent(id) for the id of a row of the list: the confirmation
\* dialog opens; its "Hapus" handler closes over this render's students.
deleteStudent(i) ==
    /\ HomeIdle
    /\ i \in 1..Len(students)
    /\ prompt' = <<[id |-> students[i].id, students |-> students]>>
    /\ op' = Other
    /\ alert' = NoAlert
    /\ UNCHANGED <<screen, loginVars, orphans, students, formVars, viewVars,
                   envVars, histVars>>

\* "Batal".
promptCancel ==
    /\ screen = "Home"
    /\ prompt # <<>>
    /\ prompt' = <<>>
    /\ op' = OpBatal
    /\ alert' = NoAlert
    /\ UNCHANGED <<screen, loginVars, orphans, students, formVars, viewVars,
                   envVars, histVars>>

\* A slip in the filter: student.id === id.
RemoveStudentInverted(list, id) == SelectSeq(list, LAMBDA s : s.id = id)

\* students.filter(student => student.id !== id)
RemoveStudent(list, id) == SelectSeq(list, LAMBDA s : s.id # id)

\* The students the "Hapus" handler filters: those of the render in which
\* deleteStudent ran.
HapusStudents == prompt[1].students

\* "Hapus": the onPress handler.
promptAccept ==
    /\ screen = "Home"
    /\ prompt # <<>>
    /\ students' = RemoveStudent(HapusStudents, prompt[1].id)
    /\ saveToStorage(RemoveStudent(HapusStudents, prompt[1].id))
    /\ prompt' = <<>>
    /\ op' = OpHapus
    /\ alert' = AlertDeleted
    /\ mutated' = TRUE
    /\ removed' = prompt[1].id
    /\ UNCHANGED <<screen, loginVars, orphans, formVars, viewVars, storage,
                   now, failed>>

\* editStudent(student) for a row of the list.
editStudent(i) ==
    /\ HomeIdle
    /\ i \in 1..Len(students)
    /\ name' = students[i].first_name
    /\ email' = students[i].email
    /\ age' = students[i].age
    /\ grade' = students[i].grade
    /\ editId' = students[i].id
    /\ op' = Other
    /\ alert' = NoAlert
    /\ UNCHANGED <<screen, loginVars, orphans, students, viewVars, prompt,
                   envVars, histVars>>

\* viewStudent(student) for a row of the list.
viewStudent(i) ==
    /\ HomeIdle
    /\ i \in 1..Len(students)
    /\ selectedStudent' = <<students[i]>>
    /\ modalVisible' = TRUE
    /\ op' = Other
    /\ alert' = NoAlert
    /\ UNCHANGED <<screen, loginVars, orphans, students, formVars, prompt,
                   envVars, histVars>>

\* "Tutup": setModalVisible(false).
closeModal ==
    /\ screen = "Home"
    /\ modalVisible
    /\ prompt = <<>>
    /\ modalVisible' = FALSE
    /\ op' = Other
    /\ alert' = NoAlert
    /\ UNCHANGED <<screen, loginVars, orphans, students, formVars,
                   selectedStudent, prompt, envVars, histVars>>

\* The read of an unmounted HomeScreen stays in flight and sets nothing.
Unmounted(q) == [i \in 1..Len(q) |-> [q[i] EXCEPT !.live = FALSE]]

\* "Logout": navigation.replace('Login'); HomeScreen goes, LoginScreen mounts.
logout ==
    /\ HomeIdle
    /\ screen' = "Login"
    /\ LoginMounted
    /\ HomeFresh
    /\ queue' = Unmounted(queue)
    /\ mutated' = FALSE
    /\ op' = Other
    /\ alert' = NoAlert
    /\ UNCHANGED <<orphans, storage, now, failed, removed>>

\* ----------------------------------------------------------- specification
\* LoginScreen's events.
LoginNext ==
    \/ \E v \in LoginEmails : setLoginEmail(v)
    \/ \E v \in Passwords : setPassword(v)
    \/ handleLogin
    \/ \E o \in LoginOutcomes : loginResponse(o)
    \/ \E o \in LoginOutcomes : orphanResponse(o)

\* The completions of HomeScreen's mount-time read.
LoadNext ==
    \/ getItemResolve
    \/ getItemReject

\* The completions of the writes, and the clock.
EnvNext ==
    \/ setItemResolve
    \/ setItemReject
    \/ Tick

\* HomeScreen's events on the records and the form.
RecordsNext ==
    \/ \E v \in Names : setName(v)
    \/ \E v \in Emails : setEmail(v)
    \/ \E v \in Ages : setAge(v)
    \/ \E v \in Grades : setGrade(v)
    \/ saveStudent
    \/ \E i \in 1..MaxStudents : deleteStudent(i)
    \/ promptCancel
    \/ promptAccept
    \/ \E i \in 1..MaxStudents : editStudent(i)

\* HomeScreen's events on the detail modal.
ViewNext ==
    \/ \E i \in 1..MaxStudents : viewStudent(i)
    \/ closeModal

Next == LoginNext \/ LoadNext \/ EnvNext \/ RecordsNext \/ ViewNext \/ logout

\* The application.
Spec == Init /\ [][Next]_vars

\* The application with a user who, on HomeScreen, only logs out: every
\* behaviour of LoginScreen, with any number of login calls in flight.
LoginSpec == Init /\ [][LoginNext \/ LoadNext \/ logout]_vars

\* A user who waits for the answer to a login call before pressing Login
\* again: no login call is in flight while HomeScreen is on display.
PatientLogin ==
    \/ \E v \in LoginEmails : setLoginEmail(v)
    \/ \E v \in Passwords : setPassword(v)
    \/ handleLogin /\ requests' =< 1
    \/ \E o \in LoginOutcomes : loginResponse(o)

\* The application with that user, who leaves the detail modal closed: every
\* behaviour of the records, the form and AsyncStorage, over any number of
\* logins and logouts.  The steps left out read and write none of students,
\* the form, editId, storage and queue.
HomeSpec == Init /\ [][PatientLogin \/ LoadNext \/ EnvNext \/ RecordsNext \/ logout]_vars

\* ----------------------------------------------------------- properties
\* The ids of the records of a list.
IdsOf(list) == {list[i].id : i \in 1..Len(list)}

\* The four fields of the form are all non-empty.
AllFilled == name # "" /\ email # "" /\ age # "" /\ grade # ""

\* The four fields of the form are empty.
FormCleared == name' = "" /\ email' = "" /\ age' = "" /\ grade' = ""

\* The record the form describes, under the given id.
FormRecord(id) ==
    [id |-> id, first_name |-> name, last_name |-> "", email |-> email,
     age |-> age, grade |-> grade]

\* C1: a save with the four fields non-empty and editId unset appends
\* exactly one record: the count grows by one, the earlier records keep
\* their positions and fields, and the new record, the last, has
\* first_name = name, last_name = '' and the form's email, age and grade.
C1_SaveAppendsOne ==
    [][(op' = OpSaveStudent /\ AllFilled /\ editId = Null) =>
        /\ Len(students') = Len(students) + 1
        /\ SubSeq(students', 1, Len(students)) = students
        /\ students'[Len(students')].first_name = name
        /\ students'[Len(students')].last_name = ""
        /\ students'[Len(students')].email = email
        /\ students'[Len(students')].age = age
        /\ students'[Len(students')].grade = grade]_vars

\* C1's case: a record was appended to a list that held one already.
C1_Witness ==
    /\ op = OpSaveStudent
    /\ alert = AlertAdded
    /\ Len(students) = 2
    /\ students[1].first_name # students[2].first_name

\* C2: a save with the four fields non-empty and editId the id of a record
\* of the list keeps the count, replaces the fields of exactly that record
\* by the form's, keeping its id and position, leaves every other record
\* as it was, unsets editId and clears the form.
C2_EditReplacesExactlyOne ==
    [][(op' = OpSaveStudent /\ AllFilled /\ editId \in IdsOf(students)) =>
        /\ Len(students') = Len(students)
        /\ \E i \in 1..Len(students) :
              /\ students[i].id = editId
              /\ students'[i] = FormRecord(editId)
              /\ \A j \in 1..Len(students) : j # i => students'[j] = students[j]
        /\ editId' = Null
        /\ FormCleared]_vars

\* C3: a save with one of the four fields empty changes nothing (the list,
\* the stored item, the form, editId), issues no write, and shows the
\* validation message.
C3_InvalidSaveChangesNothing ==
    [][(op' = OpSaveStudent /\ ~AllFilled) =>
        /\ UNCHANGED <<students, storage, queue, name, email, age, grade, editId>>
        /\ alert' = AlertFieldsRequired]_vars

\* C3's case: a save was refused with the name typed and the grade empty,
\* while a record was being edited.
C3_Witness ==
    /\ op = OpSaveStudent
    /\ alert = AlertFieldsRequired
    /\ name # ""
    /\ grade = ""
    /\ editId # Null
    /\ students # <<>>

\* C4: with no storage request in flight and none failed, once the mounted
\* screen has made a mutation, the list in memory is the list stored.
C4_MemoryEqualsStored ==
    (screen = "Home" /\ queue = <<>> /\ ~failed /\ mutated) =>
        (storage # <<>> /\ Parse(storage) = students)

\* C5: once the write of a confirmed delete of an id has completed without
\* error, and no save or delete came after it, the list a load yields holds
\* no record with that id.
C5_RemovedStaysRemoved ==
    (op = OpLoadStudents /\ removed # Null /\ PendingWrites(queue) = <<>>) =>
        removed \notin IdsOf(students)

\* C5's case: after such a delete the screen was mounted again and its load
\* brought the remaining record back.
C5_Witness ==
    /\ op = OpLoadStudents
    /\ removed # Null
    /\ PendingWrites(queue) = <<>>
    /\ ~mutated
    /\ students # <<>>

\* C6: a login call that ends in failure (a rejection, or a response without
\* a token) shows the failure message and leaves the Login screen on
\* display; Home is reached only by a response with a token.
C6_FailureShowsMessage ==
    [][/\ (op' \in {OpResponse("reject"), OpResponse("notoken")} =>
            (alert' = AlertLoginFailed /\ screen' = "Login"))
       /\ ((screen = "Login" /\ screen' = "Home") => op' = OpResponse("token"))]_vars

\* C7: handleLogin with email or password empty issues no request, shows the
\* validation message and leaves the Login screen, the email and the
\* password as they were.
C7_EmptyLoginIssuesNoRequest ==
    [][(op' = OpHandleLogin /\ (loginEmail = "" \/ password = "")) =>
        /\ requests' = requests
        /\ orphans' = orphans
        /\ alert' = AlertLoginRequired
        /\ screen' = "Login"
        /\ loginEmail' = loginEmail
        /\ password' = password]_vars

\* C7's case: Login was pressed with the email typed and the password empty.
C7_Witness ==
    /\ op = OpHandleLogin
    /\ alert = AlertLoginRequired
    /\ loginEmail # ""
    /\ password = ""
    /\ screen = "Login"

\* C8: "Batal" leaves the list, the stored item, the writes in flight and
\* the form as they were; "Hapus" makes the list the one held in memory at
\* that moment without the records of the id.
C8_DeleteFiltersCurrentList ==
    [][/\ (op' = OpBatal =>
            UNCHANGED <<students, storage, queue, name, email, age, grade, editId>>)
       /\ (op' = OpHapus =>
            students' = SelectSeq(students, LAMBDA s : s.id # prompt[1].id))]_vars

\* C9: no two records of the list share an id.
C9_UniqueIds ==
    \A i, j \in 1..Len(students) : i # j => students[i].id # students[j].id

\* C10: editId is unset or the id of a record of the list.
C10_EditIdInList == editId = Null \/ editId \in IdsOf(students)

=============================================================================
